---- MODULE Spec2Model ----
(***************************************************************************)
(* Model of the task submission / poll / retrieve pattern of the Tonn     *)
(* example scripts: the three poll loops (poll_preview_master,            *)
(* poll_preview_mix, poll_enhanced_track) and the batch mastering         *)
(* workflow (batch_album_mastering.main) that calls the first of them.    *)
(***************************************************************************)
EXTENDS Integers, Sequences, FiniteSets, TLC

\* Largest max_attempts a poll loop is invoked with under SpecPoll.
MaxAttemptsBound == 3

\* The value Python's None is modelled by.
None == "None"

\* The non-empty result payloads a body can carry.
Payloads == {"R1", "R2"}

\* What a body can hold under the result key: no key, an empty mapping, a payload.
ResultFields == {"absent", "empty"} \cup Payloads

\* `if results:` in Python: a missing key (None) and an empty mapping are falsy.
Truthy(res) == res \in Payloads

Variants == {"poll_preview_master", "poll_preview_mix", "poll_enhanced_track"}

\* Status codes of the responses the stub service sends; 500 stands for every
\* code the loops do not name.
StatusCodes == {200, 202, 404, 503, 500}

\* requests.post raised: no response was received (code 0 is no HTTP status).
TransportFailure ==
    [code |-> 0, json |-> FALSE, error |-> FALSE, res |-> "absent", status |-> ""]

\* The responses to a status request.  json: the body parses as a JSON object;
\* error: the body's "error" flag; res: the value under the variant's result key
\* (no loop reads it unless the status is 200, so it is varied for 200 alone);
\* status: the nested "status" string of previewMixTaskResults (only
\* poll_preview_mix reads it, so it is varied for that variant alone).
PollResponses(v) ==
    { r \in [code : StatusCodes, json : BOOLEAN, error : BOOLEAN, res : ResultFields,
             status : {"", "MIX_TASK_PREVIEW_COMPLETED", "MIX_TASK_PREVIEW_FAILED"}] :
        /\ (~r.json => (~r.error /\ r.res = "absent" /\ r.status = ""))
        /\ (r.res \notin Payloads => r.status = "")
        /\ (r.code # 200 => r.res = "absent")
        /\ (v # "poll_preview_mix" => r.status = "") }
    \cup {TransportFailure}

\* Outcome of one pass through a loop body: act is what the body does next
\* ("sleep": fall through to time.sleep; "return": return ret; "break": leave the
\* loop), msg the last line it printed.
Step(act, ret, msg) == [act |-> act, ret |-> ret, msg |-> msg]

\* poll_preview_master with the return of the ready branch left out.
poll_preview_master_no_return(r) ==
    IF r.code = 0 THEN Step("return", None, "Error during POST request")
    ELSE IF r.code = 202 THEN Step("sleep", None, "Task still processing")
    ELSE IF r.code = 200 THEN
        IF ~r.json THEN Step("return", None, "Error parsing JSON response")
        ELSE IF Truthy(r.res) THEN Step("sleep", None, "Preview master is complete.")
        ELSE Step("return", None, "Received 200 but missing 'previewMasterTaskResults'")
    ELSE Step("return", None, "Unexpected response code")

\* poll_preview_master taking 404 and 503 as still processing, as
\* poll_enhanced_track does.
poll_preview_master_404_processing(r) ==
    IF r.code = 0 THEN Step("return", None, "Error during POST request")
    ELSE IF r.code \in {202, 404, 503} THEN Step("sleep", None, "Task still processing")
    ELSE IF r.code = 200 THEN
        IF ~r.json THEN Step("return", None, "Error parsing JSON response")
        ELSE IF Truthy(r.res) THEN Step("return", r.res, "Preview master is complete.")
        ELSE Step("return", None, "Received 200 but missing 'previewMasterTaskResults'")
    ELSE Step("return", None, "Unexpected response code")

\* Body of the for loop of poll_preview_master.
poll_preview_master(r) ==
    IF r.code = 0 THEN Step("return", None, "Error during POST request")
    ELSE IF r.code = 202 THEN Step("sleep", None, "Task still processing")
    ELSE IF r.code = 200 THEN
        IF ~r.json THEN Step("return", None, "Error parsing JSON response")
        ELSE IF Truthy(r.res) THEN Step("return", r.res, "Preview master is complete.")
        ELSE Step("return", None, "Received 200 but missing 'previewMasterTaskResults'")
    ELSE Step("return", None, "Unexpected response code")

\* Body of the while loop of poll_preview_mix: the body is parsed before the
\* status code is looked at.
poll_preview_mix(r) ==
    IF r.code = 0 THEN Step("return", None, "Error during POST request")
    ELSE IF ~r.json THEN Step("return", None, "Error parsing JSON response")
    ELSE IF r.code = 202 THEN Step("sleep", None, "Task still processing")
    ELSE IF r.code = 200 THEN
        IF Truthy(r.res) /\ r.status = "MIX_TASK_PREVIEW_COMPLETED"
        THEN Step("return", r.res, "Preview mix is complete.")
        ELSE Step("return", None, "Received 200 but unexpected status in response")
    ELSE Step("return", None, "Unexpected response code")

\* Body of the for loop of poll_enhanced_track.
poll_enhanced_track(r) ==
    IF r.code = 0 THEN Step("return", None, "Error calling /retrieveenhancedtrack")
    ELSE IF r.code = 200 THEN
        IF ~r.json THEN Step("break", None, "Error parsing JSON response")
        ELSE IF r.error THEN Step("break", None, "API returned error while retrieving track")
        ELSE IF Truthy(r.res) THEN Step("return", r.res, "Enhanced track is ready!")
        ELSE Step("sleep", None, "Got 200 but 'revivedTrackTaskResults' was empty. Will keep polling.")
    ELSE IF r.code \in {404, 503, 202} THEN Step("sleep", None, "still processing...")
    ELSE Step("break", None, "Unexpected status")

LoopBody(v, r) ==
    CASE v = "poll_preview_master" -> poll_preview_master(r)
      [] v = "poll_preview_mix" -> poll_preview_mix(r)
      [] v = "poll_enhanced_track" -> poll_enhanced_track(r)

\* The line printed after the loop, before the final `return None`.
AfterLoopMessage(v) ==
    CASE v = "poll_preview_master" -> "Preview master was not available after polling. Please try again later."
      [] v = "poll_preview_mix" -> "Preview mix URL was not available after polling. Please try again later."
      [] v = "poll_enhanced_track" -> "Track was not ready after max polling attempts. Check logs or try again later."

\* A loop that makes one pass too many.
LoopContinuesOneMore(a, m) == a <= m

\* A loop that stops one pass early.
LoopContinuesOneLess(a, m) == a < m - 1

\* A loop that tests its bound after the body: at least one pass.
LoopContinuesDoWhile(a, m) == a = 0 \/ a < m

\* Loop condition: `for attempt in range(max_attempts)` / `while attempt < max_attempts`.
LoopContinues(a, m) == a < m

\* Inputs of one run of the batch workflow (files of os.listdir(input_dir)).
NumFiles == 2

\* Default of max_attempts, which main uses when it calls poll_preview_master.
DEFAULT_MAX_ATTEMPTS == 30

Files == 1..NumFiles

\* The opaque task identifier the service creates for the submission of file i.
TaskIdOf(i) == "T" \o ToString(i)

\* Status codes of the responses to /upload, /masteringpreview and the PUT:
\* 0 is no response (the call raised), 201 stands for the 2xx codes other than
\* 200 and 500 for the codes raise_for_status() raises on.
CallCodes == {0, 200, 201, 500}

\* raise_for_status(): raises HTTPError for a 4xx or 5xx status.
RaisesForStatus(code) == code >= 400

\* Responses to POST /upload.
UploadUrlResponses ==
    { r \in [code : CallCodes, json : BOOLEAN, error : BOOLEAN,
             signed_url : BOOLEAN, readable_url : BOOLEAN] :
        (r.code = 0 \/ ~r.json) => (~r.json /\ ~r.error /\ ~r.signed_url /\ ~r.readable_url) }

\* get_upload_urls: raised is TRUE when the function leaves by an exception no
\* handler catches (the handler of RequestException reads `response`, which is
\* unbound when requests.post itself raised); otherwise urls says whether the
\* pair of URLs or (None, None) is returned.
get_upload_urls(r) ==
    IF r.code = 0 THEN [raised |-> TRUE, urls |-> FALSE]
    ELSE IF RaisesForStatus(r.code) THEN [raised |-> FALSE, urls |-> FALSE]
    ELSE IF ~r.json THEN [raised |-> FALSE, urls |-> FALSE]
    ELSE IF r.error THEN [raised |-> FALSE, urls |-> FALSE]
    ELSE IF ~r.signed_url \/ ~r.readable_url THEN [raised |-> FALSE, urls |-> FALSE]
    ELSE [raised |-> FALSE, urls |-> TRUE]

\* What can happen in upload_file_to_signed_url: the PUT answers 2xx, the PUT
\* answers 4xx/5xx, the PUT raises without a response, open() raises
\* FileNotFoundError, open() raises another OSError.
UploadEvents == {"put_ok", "put_http_error", "put_no_response", "file_not_found", "os_error"}

\* upload_file_to_signed_url: sent says whether a PUT was issued, raised whether
\* an exception leaves the function, ok is the value returned.
upload_file_to_signed_url(u) ==
    CASE u = "put_ok" -> [sent |-> TRUE, raised |-> FALSE, ok |-> TRUE]
      [] u = "put_http_error" -> [sent |-> TRUE, raised |-> FALSE, ok |-> FALSE]
      [] u = "put_no_response" -> [sent |-> TRUE, raised |-> TRUE, ok |-> FALSE]
      [] u = "file_not_found" -> [sent |-> FALSE, raised |-> FALSE, ok |-> FALSE]
      [] u = "os_error" -> [sent |-> FALSE, raised |-> TRUE, ok |-> FALSE]

\* Responses to POST /masteringpreview; tid: the body has mastering_task_id.
SubmitResponses ==
    { r \in [code : CallCodes, json : BOOLEAN, tid : BOOLEAN] :
        (r.code = 0 \/ ~r.json) => (~r.json /\ ~r.tid) }

\* The lines main prints for a file whose preview request fails; the first
\* handler prints the exception with its line.
ErrorRequesting(e) == "Error requesting mastering preview: " \o e
ErrorDecoding == "Error decoding JSON response from /masteringpreview"
MissingTaskId == "Error: Missing mastering_task_id in response"

\* masteringpreview without a handler for the HTTPError of raise_for_status().
masteringpreview_uncaught(r, bound, decode) ==
    IF r.code = 0 THEN
        IF bound THEN [act |-> "continue", log |-> ErrorRequesting("ConnectionError")]
        ELSE [act |-> "raise", log |-> ErrorRequesting("ConnectionError")]
    ELSE IF RaisesForStatus(r.code) THEN [act |-> "raise", log |-> ErrorRequesting("HTTPError")]
    ELSE IF ~r.json THEN
        [act |-> "continue",
         log |-> IF decode THEN ErrorDecoding ELSE ErrorRequesting("JSONDecodeError")]
    ELSE IF ~r.tid THEN [act |-> "continue", log |-> MissingTaskId]
    ELSE [act |-> "poll", log |-> "Mastering preview task created"]

\* The try block of main around POST /masteringpreview.  bound: main's local
\* `response` was bound by an earlier pass of the for loop.  act is "raise" (an
\* exception leaves main), "continue" (next file) or "poll" (go on to step 5).
\* A body that does not parse raises a JSONDecodeError, which the requests
\* library at hand makes a RequestException or not: both handlers continue, and
\* `decode` picks the one that prints.
masteringpreview(r, bound, decode) ==
    IF r.code = 0 THEN
        IF bound THEN [act |-> "continue", log |-> ErrorRequesting("ConnectionError")]
        ELSE [act |-> "raise", log |-> ErrorRequesting("ConnectionError")]
    ELSE IF RaisesForStatus(r.code) THEN [act |-> "continue", log |-> ErrorRequesting("HTTPError")]
    ELSE IF ~r.json THEN
        [act |-> "continue",
         log |-> IF decode THEN ErrorDecoding ELSE ErrorRequesting("JSONDecodeError")]
    ELSE IF ~r.tid THEN [act |-> "continue", log |-> MissingTaskId]
    ELSE [act |-> "poll", log |-> "Mastering preview task created"]

\* Responses to POST /retrievefinalmaster; res: finalMasterTaskResults is
\* absent, empty, a mapping without download_url_mastered, or one with it.
RetrieveResponses ==
    { r \in [code : {0, 200, 500}, json : BOOLEAN, res : {"absent", "empty", "no_url", "url"}] :
        (r.code = 0 \/ ~r.json) => (~r.json /\ r.res = "absent") }

\* retrieve_final_master without the test of the status code.
retrieve_final_master_any_status(r) ==
    IF r.code = 0 THEN None
    ELSE IF ~r.json THEN None
    ELSE IF r.res = "absent" THEN None
    ELSE r.res

\* retrieve_final_mix: the value returned; data.get("applyAudioEffectsResults", {})
\* gives the empty mapping for a body without the key.
retrieve_final_mix(r) ==
    IF r.code = 0 THEN None
    ELSE IF r.code = 200 THEN
        IF ~r.json THEN None
        ELSE IF r.res = "absent" THEN "empty"
        ELSE r.res
    ELSE None

\* retrieve_final_mix: the line it prints when it returns None.
retrieve_final_mix_line(r) ==
    IF r.code = 0 THEN "Error during POST request to /retrievefinalmix"
    ELSE IF r.code = 200 THEN "Error parsing final mix JSON response"
    ELSE "Failed to retrieve final mix."

\* Responses to POST /mixenhancepreview and POST /mixenhance; tid: the body
\* has mixrevive_task_id.
EnhanceSubmitResponses ==
    { r \in [code : CallCodes, json : BOOLEAN, error : BOOLEAN, tid : BOOLEAN] :
        (r.code = 0 \/ ~r.json) => (~r.json /\ ~r.error /\ ~r.tid) }

\* start_mix_enhance_preview and start_mix_enhance (the same code but for the
\* endpoint): raised is TRUE when response.json(), which is outside any try,
\* raises; tid says whether a task identifier is returned (None otherwise).
start_mix_enhance(r) ==
    IF r.code = 0 THEN [raised |-> FALSE, tid |-> FALSE, log |-> "Error calling the endpoint"]
    ELSE IF r.code = 200 THEN
        IF ~r.json THEN [raised |-> TRUE, tid |-> FALSE, log |-> "Traceback"]
        ELSE IF ~r.error THEN [raised |-> FALSE, tid |-> r.tid, log |-> "task created. Task ID"]
        ELSE [raised |-> FALSE, tid |-> FALSE, log |-> "API returned error"]
    ELSE [raised |-> FALSE, tid |-> FALSE, log |-> "Request failed with status"]

\* The max_attempts main of roex_mix_enhance_tutorial.py gives
\* poll_enhanced_track for the preview job and for the full job.
ENHANCE_PREVIEW_MAX_ATTEMPTS == 70
ENHANCE_FULL_MAX_ATTEMPTS == 50

\* Most entries of the "stems" mapping of a result.
MaxStems == 1

\* Default of max_attempts of poll_preview_mix, which main uses.
MIX_MAX_ATTEMPTS == 30

\* The part of main of roex_mix_settings.py around POST /mixpreview: act is
\* "return" (main returns) or "poll" (main goes on to poll_preview_mix).
mixpreview(r) ==
    IF r.code = 0 THEN [act |-> "return", log |-> "Error during POST request to /mixpreview"]
    ELSE IF r.code = 200 THEN
        IF ~r.json THEN [act |-> "return", log |-> "Error parsing preview mix JSON response"]
        ELSE IF ~r.tid THEN [act |-> "return", log |-> "Error: Task ID not found in response"]
        ELSE [act |-> "poll", log |-> "Mix preview task created successfully."]
    ELSE [act |-> "return", log |-> "Failed to create mix preview task."]

\* retrieve_final_master: the value returned.
retrieve_final_master(r) ==
    IF r.code = 0 THEN None
    ELSE IF r.code = 200 THEN
        IF ~r.json THEN None
        ELSE IF r.res = "absent" THEN None
        ELSE r.res
    ELSE None

\* What can happen in download_file: the file is written, the GET raises, the
\* status is not 2xx, writing the file raises.
DownloadEvents == {"written", "no_response", "http_error", "io_error"}

\* download_file: the line it prints; it returns None in every case.
download_file(d) ==
    CASE d = "written" -> "Downloaded file"
      [] d \in {"no_response", "http_error"} -> "Error downloading file"
      [] d = "io_error" -> "Error writing file"

\* download_file has no return statement: whatever happened, the call
\* evaluates to None.
download_file_returns(d) == None

\* download_file of roex_mix_enhance_tutorial.py: the line it prints; one
\* handler of Exception serves every failure.
download_file_enhance(d) ==
    IF d = "written" THEN "Downloaded file" ELSE "Error downloading file"

\* Longest body the remote resource serves.
MaxBytes == 3

\* The chunk_size of r.iter_content(chunk_size=8192), scaled down.
ChunkSize == 2

Bytes == {0, 1}

\* The byte sequences of a given length at most n.
ByteSeqs(n) == UNION {[1..k -> Bytes] : k \in 0..n}

\* What the destination holds before the download (<<>>: nothing, or no file).
OldContents == ByteSeqs(1)

\* The scripts that define download_file.
DownloadVariants == {"batch_album_mastering", "roex_mix_enhance_tutorial"}

\* Status codes of the GET: 200 and 206 for the 2xx codes, 302 for the codes
\* below 400 that are not 2xx (a redirect without a Location header is handed
\* to the caller as it is), 404 for the codes raise_for_status() raises on,
\* 0 for no response.
DownloadCodes == {0, 200, 206, 302, 404}

\* open(local_filename, 'ab'): the earlier content is kept.
open_ab(content) == content

\* open(local_filename, 'wb'): the file is created or truncated.
open_wb(content) == <<>>

\* The line download_file prints, by script.
DownloadLine(v, d) ==
    IF v = "roex_mix_enhance_tutorial" THEN download_file_enhance(d) ELSE download_file(d)

Min(a, b) == IF a < b THEN a ELSE b

\* The calls whose requests are counted per file: every call of the loop body
\* of main but the status requests, which poll_preview_master repeats.
CountedCalls == {"upload_urls", "put", "submit", "retrieve", "download"}

\* The task identifiers the service can create in one run.
TaskIds == {TaskIdOf(i) : i \in Files}

(***************************************************************************)
(* roex_mix_comparison.py: the values compared and smart_compare_value.    *)
(* Numbers are kept in tenths, so that the thresholds 1.0 and 0.5 and the  *)
(* loudness values with one decimal are integers.                          *)
(***************************************************************************)

\* A value of a metrics dictionary: a number (n, in tenths), a boolean (n is 10
\* for True, 0 for False: float(True) is 1.0), or a string s.
NoValue == [kind |-> "none", n |-> 0, s |-> ""]

Num(n) == [kind |-> "num", n |-> n, s |-> ""]

Bool(b) == [kind |-> "bool", n |-> IF b THEN 10 ELSE 0, s |-> ""]

Str(s) == [kind |-> "str", n |-> 0, s |-> s]

\* Bit depths 16 and 24, loudness values -14.0, -13.5, -12.8.
Numbers == {160, 240, -140, -135, -128}

Values == {Num(n) : n \in Numbers} \cup {Bool(b) : b \in BOOLEAN}
              \cup {Str(s) : s \in {"N/A", "ROCK", "POP"}}

\* The keys with a threshold of their own, and one without.
Keys == {"integrated_loudness_lufs", "peak_loudness_dbfs", "bit_depth", "sample_rate"}

\* numeric_thresholds.get(key, 0.0), in tenths.
numeric_thresholds(k) ==
    CASE k = "integrated_loudness_lufs" -> 10
      [] k = "peak_loudness_dbfs" -> 5
      [] k = "bit_depth" -> 0
      [] OTHER -> 0

\* float(v) succeeds for numbers and booleans, and raises ValueError for the
\* strings drawn here.
is_numeric(v) == v.kind \in {"num", "bool"}

Abs(x) == IF x < 0 THEN -x ELSE x

\* f"{colour}{val}{RESET}", and the three kinds of interpretation line; diff
\* and threshold are 0 in the lines that do not print them.
Formatted(colour, val) == [colour |-> colour, val |-> val]

Interpretation(text, diff, threshold) == [text |-> text, diff |-> diff, threshold |-> threshold]

IsNA(v) == v = Str("N/A")

\* smart_compare_value(key, val_a, val_b).  `if threshold and diff > threshold`:
\* a threshold of 0 is falsy.
smart_compare_value(k, a, b) ==
    LET numeric == is_numeric(a) /\ is_numeric(b)
        diff == Abs(a.n - b.n)
        threshold == numeric_thresholds(k)
        colour == IF numeric
                  THEN IF threshold # 0 /\ diff > threshold THEN "RED" ELSE "GREEN"
                  ELSE IF a = b THEN "GREEN" ELSE "RED"
        interpretation ==
            IF numeric
            THEN IF threshold # 0 /\ diff > threshold
                 THEN Interpretation("exceeds threshold", diff, threshold)
                 ELSE IF diff > 0
                      THEN Interpretation("is within acceptable range.", diff, 0)
                      ELSE Interpretation("Values are identical.", 0, 0)
            ELSE IF a = b THEN Interpretation("Values are identical.", 0, 0)
                 ELSE Interpretation("Values differ.", 0, 0)
    IN  IF IsNA(a) \/ IsNA(b)
        THEN [called |-> TRUE,
              formatted_a |-> Formatted("", a),
              formatted_b |-> Formatted("", b),
              interpretation |-> IF a # b THEN Interpretation("One value is N/A.", 0, 0)
                                 ELSE Interpretation("Both values are N/A.", 0, 0)]
        ELSE [called |-> TRUE,
              formatted_a |-> Formatted(colour, a),
              formatted_b |-> Formatted(colour, b),
              interpretation |-> interpretation]

\* smart_compare_value has not been called.
NotCompared ==
    [called |-> FALSE,
     formatted_a |-> Formatted("", NoValue),
     formatted_b |-> Formatted("", NoValue),
     interpretation |-> Interpretation("", 0, 0)]

\* The two mixes of roex_mix_comparison.main: 1 is "A", 2 is "B".
CmpLabels == {1, 2}

\* analyze_mix returned {} (or was not called): no diagnosis.
NoDiagnosis == [present |-> FALSE, bit_depth |-> NoValue]

\* What payload.get("bit_depth", "N/A") of a diagnosis can give.
DiagnosisBitDepths == {Num(160), Num(240), Str("N/A")}

\* Responses to POST /mixanalysis.  res: the body holds no mixDiagnosisResults
\* ("absent"), an empty one ("empty") or a diagnosis; "null": the body is the
\* JSON value null.
AnalysisResponses ==
    { r \in [code : CallCodes, json : BOOLEAN, res : {"absent", "empty", "null", "diagnosis"},
             bit_depth : DiagnosisBitDepths \cup {NoValue}] :
        /\ (r.code = 0 \/ ~r.json) => r.res = "absent"
        /\ (r.res = "diagnosis") <=> (r.bit_depth # NoValue) }

\* analyze_mix: every exception of the request, of raise_for_status() and of
\* response.json() is caught and gives {}; `"mixDiagnosisResults" in data` is
\* outside the try and raises TypeError when data is None.
analyze_mix(r) ==
    IF r.code = 0 \/ RaisesForStatus(r.code) \/ ~r.json
    THEN [raised |-> FALSE, diagnosis |-> NoDiagnosis]
    ELSE IF r.res = "null" THEN [raised |-> TRUE, diagnosis |-> NoDiagnosis]
    ELSE IF r.res = "diagnosis"
         THEN [raised |-> FALSE, diagnosis |-> [present |-> TRUE, bit_depth |-> r.bit_depth]]
         ELSE [raised |-> FALSE, diagnosis |-> NoDiagnosis]

\* roex_mix_settings.main has not loaded its final payload file.
Unloaded == [loaded |-> FALSE, held |-> None, multitrackTaskId |-> None]

\* A task identifier of an earlier run, left in the final payload file.
StaleTaskId == "T0"

\* final_payload["applyAudioEffectsData"]["multitrackTaskId"] = task_id, left out.
KeepFileTaskId(held, tid) == held

\* final_payload["applyAudioEffectsData"]["multitrackTaskId"] = task_id.
SetMultitrackTaskId(held, tid) == tid

VARIABLES
    variant,        \* which poll function is running
    max_attempts,   \* its max_attempts argument
    attempt,        \* the loop variable: passes completed so far
    ppc,            \* position of the poll call: "idle", "loop", "after_loop", "returned"
    response,       \* the response to the last status request
    requests,       \* status requests issued by this invocation
    sleeps,         \* time.sleep(poll_interval) calls of this invocation
    ret,            \* the value returned
    lastMsg,        \* the last line the poll function printed
    poll_task_id,   \* the task_id argument of the poll function
    retrieve_payload, \* the task identifier in the payload built before the loop
    sent,           \* the task identifier the last status request carried (None: no request yet)
    invocations,    \* calls of the poll function so far
    bpc,            \* position of main: the step of the for loop body it is at
    idx,            \* the file the for loop of main is at
    main_response,  \* main's local `response`: "unbound", or "bound" to a response
    task_id,        \* main's task_id
    preview_url,    \* main's preview_url
    itemLog,        \* per file, the line main printed when it left the file
    printed,        \* the last line main printed and the file it names (0: none)
    exchanged,      \* per file, the calls a request was issued for
    wire,           \* the last request main or a callee issued, its status code, and
                    \* (for a final retrieval) what its body holds under the results key
    polling,        \* the task identifiers a poll loop is running for
    issued,         \* per file and kind of call (status requests aside), the requests issued
    tasks,          \* per task identifier: "none", "Submitted", "Completed", "Failed"
    final_results,  \* main's local final_results: "unbound", None or the results mapping
    consumed,       \* the <<call, task identifier>> pairs of the retrievals and downloads issued
    dl_variant,     \* the script whose download_file is running
    dpc,            \* position of download_file: "idle", "get", "open", "stream", "done"
    dl_code,        \* status code of the answer to the GET (0: none)
    served,         \* the bytes the remote resource serves
    old,            \* what the destination held when download_file was called
    dest,           \* what the destination holds
    pos,            \* bytes of the body received so far
    dl_event,       \* how download_file ended (one of DownloadEvents), "" before that
    dl_ret,         \* the value of the call download_file(...), "running" before it ends
    dl_line,        \* the line download_file printed
    final_payload,  \* roex_mix_settings.main's final_payload: "unloaded", or the task
                    \* identifier the file held and the one the payload holds now
    readable_urls,  \* roex_mix_comparison.main's readable_urls: the labels it has a URL for
    analysis_results, \* its analysis_results: per label, "none" or the diagnosis
    key,            \* the arguments of smart_compare_value ...
    val_a,
    val_b,
    compared        \* ... and what it returned ("pending" before the call)

pollVars ==
    <<variant, max_attempts, attempt, ppc, response, requests, sleeps, ret, lastMsg,
      poll_task_id, retrieve_payload, sent, invocations>>

batchVars ==
    <<bpc, idx, main_response, task_id, preview_url, itemLog, printed, exchanged, wire, polling,
      issued, tasks, final_results, consumed>>

dlVars == <<dl_variant, dpc, dl_code, served, old, dest, pos, dl_event, dl_ret, dl_line>>

mixVars == <<final_payload>>

cmpVars == <<readable_urls, analysis_results, key, val_a, val_b, compared>>

restVars == <<mixVars, cmpVars>>

vars == <<pollVars, batchVars, dlVars, restVars>>

\* No poll function has been called.
NoPollTask ==
    /\ poll_task_id = None
    /\ retrieve_payload = None
    /\ sent = None
    /\ invocations = 0

\* No final payload is loaded and no comparison is running.
NoRest ==
    /\ final_payload = Unloaded
    /\ readable_urls = {}
    /\ analysis_results = [l \in CmpLabels |-> NoDiagnosis]
    /\ key = ""
    /\ val_a = NoValue
    /\ val_b = NoValue
    /\ compared = NotCompared

\* No download_file is running.
NoDownload ==
    /\ dl_variant = "batch_album_mastering"
    /\ dpc = "idle"
    /\ dl_code = 0
    /\ served = <<>>
    /\ old = <<>>
    /\ dest = <<>>
    /\ pos = 0
    /\ dl_event = ""
    /\ dl_ret = "running"
    /\ dl_line = ""

\* A poll function that takes up the attempt count of the invocation before.
PollCallKeepsCount(v, m, t) ==
    /\ variant' = v
    /\ max_attempts' = m
    /\ poll_task_id' = t
    /\ retrieve_payload' = t
    /\ sent' = None
    /\ attempt' = IF ppc = "returned" THEN attempt ELSE 0
    /\ ppc' = "loop"
    /\ response' = TransportFailure
    /\ requests' = 0
    /\ sleeps' = 0
    /\ ret' = None
    /\ lastMsg' = "Polling"

\* Entry of a poll function called with the task identifier t: the payload is
\* built from t, nothing is requested or slept yet, and the loop variable
\* starts from the beginning of range(max_attempts).
PollCall(v, m, t) ==
    /\ variant' = v
    /\ max_attempts' = m
    /\ poll_task_id' = t
    /\ retrieve_payload' = t
    /\ sent' = None
    /\ attempt' = 0
    /\ ppc' = "loop"
    /\ response' = TransportFailure
    /\ requests' = 0
    /\ sleeps' = 0
    /\ ret' = None
    /\ lastMsg' = "Polling"

\* main calls the poll function with its task_id.
PollEntry(v, m) ==
    /\ PollCall(v, m, task_id)
    /\ invocations' = invocations + 1

\* One pass of the loop: the status request, the classification of its
\* response, and the sleep or the exit that follows.
PollPass ==
    /\ ppc = "loop"
    /\ LoopContinues(attempt, max_attempts)
    /\ \E r \in PollResponses(variant) :
        LET b == LoopBody(variant, r) IN
        /\ response' = r
        /\ requests' = requests + 1
        /\ sent' = retrieve_payload
        /\ lastMsg' = b.msg
        /\ sleeps' = IF b.act = "sleep" THEN sleeps + 1 ELSE sleeps
        /\ attempt' = IF b.act = "sleep" THEN attempt + 1 ELSE attempt
        /\ ret' = IF b.act = "return" THEN b.ret ELSE ret
        /\ ppc' = CASE b.act = "sleep" -> "loop"
                    [] b.act = "return" -> "returned"
                    [] b.act = "break" -> "after_loop"
    /\ UNCHANGED <<variant, max_attempts, poll_task_id, retrieve_payload, invocations>>

\* The code after the loop, reached when the range is exhausted or by break.
PollEnd ==
    /\ IF ppc = "loop" THEN ~LoopContinues(attempt, max_attempts) ELSE ppc = "after_loop"
    /\ lastMsg' = AfterLoopMessage(variant)
    /\ ret' = None
    /\ ppc' = "returned"
    /\ UNCHANGED <<variant, max_attempts, attempt, response, requests, sleeps>>
    /\ UNCHANGED <<poll_task_id, retrieve_payload, sent, invocations>>

PollRequest == PollPass /\ UNCHANGED <<batchVars, dlVars, restVars>>

PollAfterLoop == PollEnd /\ UNCHANGED <<batchVars, dlVars, restVars>>

\* No request has been issued.
NoRequest == [call |-> "none", code |-> 0, item |-> 0, body |-> "", url |-> "", task |-> None]

\* No batch is running.
NoBatch ==
    /\ bpc = "none"
    /\ idx = 0
    /\ main_response = "unbound"
    /\ task_id = None
    /\ preview_url = None
    /\ itemLog = [i \in Files |-> "pending"]
    /\ printed = [text |-> "", item |-> 0]
    /\ exchanged = [i \in Files |-> {}]
    /\ wire = NoRequest
    /\ polling = {}
    /\ issued = [i \in Files |-> [c \in CountedCalls |-> 0]]
    /\ tasks = [t \in TaskIds |-> "none"]
    /\ final_results = "unbound"
    /\ consumed = {}

\* A poll function called on its own, with any max_attempts >= 0.
InitPoll ==
    /\ variant \in Variants
    /\ max_attempts \in 0..MaxAttemptsBound
    /\ attempt = 0
    /\ ppc = "loop"
    /\ response = TransportFailure
    /\ requests = 0
    /\ sleeps = 0
    /\ ret = None
    /\ lastMsg = "Polling"
    /\ poll_task_id \in TaskIds
    /\ retrieve_payload = poll_task_id
    /\ sent = None
    /\ invocations = 1
    /\ NoBatch
    /\ NoDownload
    /\ NoRest

NextPoll == PollRequest \/ PollAfterLoop

SpecPoll == InitPoll /\ [][NextPoll]_vars

(***************************************************************************)
(* batch_album_mastering.main: the for loop over the input files.          *)
(***************************************************************************)

\* A `continue` that goes back to the preview request of the same file.
ResubmitFile(line) ==
    /\ itemLog' = [itemLog EXCEPT ![idx] = line]
    /\ printed' = [text |-> line, item |-> idx]
    /\ idx' = idx
    /\ bpc' = "submit"

\* `continue`, or the end of the loop body: main leaves file idx with `line` as
\* the last line printed for it and goes to the next file.
LeaveFile(line) ==
    /\ itemLog' = [itemLog EXCEPT ![idx] = line]
    /\ printed' = [text |-> line, item |-> idx]
    /\ idx' = idx + 1
    /\ bpc' = "next"

\* An exception no handler catches leaves main: the run ends in a traceback.
Traceback ==
    /\ bpc' = "crashed"
    /\ printed' = [text |-> "Traceback (most recent call last)", item |-> 0]
    /\ UNCHANGED <<idx, itemLog>>

\* A request of the kind `call` was issued for file idx, to the URL `url` and
\* with the task identifier `task` in its payload, and answered with the
\* status `code` (0: it raised without a response) and the body `body`.
ExchangeTo(call, code, body, url, task) ==
    /\ exchanged' = [exchanged EXCEPT ![idx] = @ \cup {call}]
    /\ wire' = [call |-> call, code |-> code, item |-> idx, body |-> body,
                 url |-> url, task |-> task]
    /\ issued' = IF call \in CountedCalls
                 THEN [issued EXCEPT ![idx][call] = @ + 1]
                 ELSE issued

\* The same, for the calls whose URL and payload the properties do not look at.
ExchangeBody(call, code, body) == ExchangeTo(call, code, body, "", None)

\* The same, for the calls whose body the properties do not look at.
Exchange(call, code) == ExchangeBody(call, code, "")

\* What the body of a final-retrieval response holds under the results key.
BodyOf(r) == IF r.code = 0 THEN "" ELSE IF r.json THEN r.res ELSE "not JSON"

\* Top of the for loop: files that are no supported audio files are skipped.
BatchNextFile ==
    /\ bpc = "next"
    /\ idx \in Files
    /\ \E supported \in BOOLEAN :
        IF supported
        THEN /\ bpc' = "get_upload_urls"
             /\ printed' = [text |-> "--- Processing ---", item |-> idx]
             /\ UNCHANGED <<idx, itemLog>>
        ELSE LeaveFile("Skipping unsupported file")
    /\ UNCHANGED <<main_response, task_id, preview_url, exchanged, wire, polling>>
    /\ UNCHANGED <<issued, tasks, final_results, consumed>>
    /\ UNCHANGED pollVars
    /\ UNCHANGED <<dlVars, restVars>>

\* Step 2: get_upload_urls and the check of its result.
BatchGetUploadUrls ==
    /\ bpc = "get_upload_urls"
    /\ \E r \in UploadUrlResponses :
        LET got == get_upload_urls(r) IN
        /\ Exchange("upload_urls", r.code)
        /\ IF got.raised THEN Traceback
           ELSE IF ~got.urls THEN LeaveFile("Failed to get upload URLs")
           ELSE /\ bpc' = "upload"
                /\ UNCHANGED <<idx, itemLog, printed>>
    /\ UNCHANGED <<main_response, task_id, preview_url, polling, tasks, final_results, consumed>>
    /\ UNCHANGED pollVars
    /\ UNCHANGED <<dlVars, restVars>>

\* Step 3: upload_file_to_signed_url and the check of its result.
BatchUpload ==
    /\ bpc = "upload"
    /\ \E u \in UploadEvents :
        LET up == upload_file_to_signed_url(u) IN
        /\ IF up.sent
           THEN Exchange("put", CASE u = "put_ok" -> 200
                                  [] u = "put_http_error" -> 500
                                  [] u = "put_no_response" -> 0)
           ELSE UNCHANGED <<exchanged, wire, issued>>
        /\ IF up.raised THEN Traceback
           ELSE IF ~up.ok THEN LeaveFile("File upload failed")
           ELSE /\ bpc' = "submit"
                /\ printed' = [text |-> "Using readable URL", item |-> idx]
                /\ UNCHANGED <<idx, itemLog>>
    /\ UNCHANGED <<main_response, task_id, preview_url, polling, tasks, final_results, consumed>>
    /\ UNCHANGED pollVars
    /\ UNCHANGED <<dlVars, restVars>>

\* preview_url assigned once, before the loop.
masteringpreview_url_once(current) == IF current = None THEN "/masteringpreview" ELSE current

\* preview_url = f"{BASE_URL}/masteringpreview", whatever preview_url held.
masteringpreview_url(current) == "/masteringpreview"

\* Step 4: POST /masteringpreview.  preview_url and task_id are set anew
\* before the request.
BatchSubmit ==
    /\ bpc = "submit"
    /\ \E r \in SubmitResponses, decode \in BOOLEAN :
        LET s == masteringpreview(r, main_response = "bound", decode) IN
        /\ preview_url' = masteringpreview_url(preview_url)
        /\ ExchangeTo("submit", r.code, "", preview_url', None)
        /\ main_response' = IF r.code = 0 THEN main_response ELSE "bound"
        /\ task_id' = IF s.act = "poll" THEN TaskIdOf(idx) ELSE None
        /\ tasks' = IF s.act = "poll"
                    THEN [tasks EXCEPT ![TaskIdOf(idx)] = "Submitted"]
                    ELSE tasks
        /\ CASE s.act = "raise" -> Traceback
             [] s.act = "continue" -> LeaveFile(s.log)
             [] s.act = "poll" ->
                  /\ bpc' = "poll"
                  /\ printed' = [text |-> s.log, item |-> idx]
                  /\ UNCHANGED <<idx, itemLog>>
    /\ UNCHANGED <<polling, final_results, consumed>>
    /\ UNCHANGED pollVars
    /\ UNCHANGED <<dlVars, restVars>>

\* Step 5 with the poll started in the background: main goes on to the next
\* file while the task is still being polled.
BatchPollCallNoWait ==
    /\ bpc = "poll"
    /\ polling' = polling \cup {task_id}
    /\ bpc' = "next"
    /\ idx' = idx + 1
    /\ UNCHANGED <<main_response, task_id, preview_url, itemLog, printed, exchanged, wire>>
    /\ UNCHANGED <<issued, tasks, final_results, consumed>>
    /\ UNCHANGED pollVars
    /\ UNCHANGED <<dlVars, restVars>>

\* Step 5: main calls poll_preview_master(task_id, headers).
BatchPollCall ==
    /\ bpc = "poll"
    /\ PollEntry("poll_preview_master", DEFAULT_MAX_ATTEMPTS)
    /\ polling' = polling \cup {task_id}
    /\ bpc' = "polling"
    /\ UNCHANGED <<idx, main_response, task_id, preview_url, itemLog, printed, exchanged, wire>>
    /\ UNCHANGED <<issued, tasks, final_results, consumed>>
    /\ UNCHANGED <<dlVars, restVars>>

\* A pass of the poll loop inside the batch.
BatchPollRequest ==
    /\ bpc = "polling"
    /\ PollPass
    /\ ExchangeTo("poll", response'.code, "", "", sent')
    /\ UNCHANGED <<bpc, idx, main_response, task_id, preview_url, itemLog, printed, polling>>
    /\ UNCHANGED <<tasks, final_results, consumed>>
    /\ UNCHANGED <<dlVars, restVars>>

BatchPollAfterLoop ==
    /\ bpc = "polling"
    /\ PollEnd
    /\ UNCHANGED <<batchVars, dlVars, restVars>>

\* The frame of a poll function is gone once its caller has the value returned.
PollFrameDropped ==
    /\ ppc' = "idle"
    /\ attempt' = 0
    /\ response' = TransportFailure
    /\ requests' = 0
    /\ sleeps' = 0
    /\ ret' = None
    /\ lastMsg' = ""
    /\ poll_task_id' = None
    /\ retrieve_payload' = None
    /\ sent' = None
    /\ UNCHANGED <<variant, max_attempts, invocations>>

\* main going on to the final master without looking at preview_results.
BatchPollReturnUnchecked ==
    /\ bpc = "polling"
    /\ ppc = "returned"
    /\ polling' = polling \ {task_id}
    /\ bpc' = "retrieve"
    /\ \E url \in {None, "previewMasterTrackURL"} : preview_url' = url
    /\ printed' = [text |-> "Preview master ready", item |-> idx]
    /\ tasks' = [tasks EXCEPT ![task_id] = IF Truthy(ret) THEN "Completed" ELSE "Failed"]
    /\ PollFrameDropped
    /\ UNCHANGED <<idx, itemLog, main_response, task_id, exchanged, wire, issued,
                   final_results, consumed>>
    /\ UNCHANGED <<dlVars, restVars>>

\* poll_preview_master has returned: main checks preview_results.
BatchPollReturn ==
    /\ bpc = "polling"
    /\ ppc = "returned"
    /\ polling' = polling \ {task_id}
    /\ IF ~Truthy(ret)
       THEN /\ LeaveFile("Could not retrieve preview master")
            /\ UNCHANGED preview_url
       ELSE /\ bpc' = "retrieve"
            /\ \E url \in {None, "previewMasterTrackURL"} : preview_url' = url
            /\ printed' = [text |-> "Preview master ready", item |-> idx]
            /\ UNCHANGED <<idx, itemLog>>
    /\ tasks' = [tasks EXCEPT ![task_id] = IF Truthy(ret) THEN "Completed" ELSE "Failed"]
    /\ PollFrameDropped
    /\ UNCHANGED <<main_response, task_id, exchanged, wire, issued, final_results, consumed>>
    /\ UNCHANGED <<dlVars, restVars>>

\* Step 6: retrieve_final_master and the checks of its result.
BatchRetrieveFinal ==
    /\ bpc = "retrieve"
    /\ \E r \in RetrieveResponses :
        LET got == retrieve_final_master(r) IN
        /\ ExchangeTo("retrieve", r.code, BodyOf(r), "/retrievefinalmaster", task_id)
        /\ consumed' = consumed \cup {<<"retrieve", task_id>>}
        /\ final_results' = got
        /\ IF got \in {"no_url", "url"}
           THEN IF got = "url"
                THEN /\ bpc' = "download"
                     /\ printed' = [text |-> "Downloading final master", item |-> idx]
                     /\ UNCHANGED <<idx, itemLog>>
                ELSE LeaveFile("Final master result received, but URL is missing.")
           ELSE LeaveFile("Failed to retrieve final master")
    /\ UNCHANGED <<main_response, task_id, preview_url, polling, tasks>>
    /\ UNCHANGED pollVars
    /\ UNCHANGED <<dlVars, restVars>>

\* download_file(final_url, output_filename): the last statement of the body.
BatchDownload ==
    /\ bpc = "download"
    /\ \E d \in DownloadEvents :
        /\ Exchange("download", CASE d \in {"written", "io_error"} -> 200
                                  [] d = "http_error" -> 500
                                  [] d = "no_response" -> 0)
        /\ LeaveFile(download_file(d))
        /\ consumed' = consumed \cup {<<"download", task_id>>}
    /\ UNCHANGED <<main_response, task_id, preview_url, polling, tasks, final_results>>
    /\ UNCHANGED pollVars
    /\ UNCHANGED <<dlVars, restVars>>

\* The for loop is over: main prints its closing line.
BatchFinished ==
    /\ bpc = "next"
    /\ idx \notin Files
    /\ bpc' = "finished"
    /\ printed' = [text |-> "Batch mastering process finished.", item |-> 0]
    /\ UNCHANGED <<idx, main_response, task_id, preview_url, itemLog, exchanged, wire, polling>>
    /\ UNCHANGED <<issued, tasks, final_results, consumed>>
    /\ UNCHANGED pollVars
    /\ UNCHANGED <<dlVars, restVars>>

\* main after its argument checks, before the for loop.
InitBatch ==
    /\ variant = "poll_preview_master"
    /\ max_attempts = DEFAULT_MAX_ATTEMPTS
    /\ attempt = 0
    /\ ppc = "idle"
    /\ response = TransportFailure
    /\ requests = 0
    /\ sleeps = 0
    /\ ret = None
    /\ lastMsg = ""
    /\ NoPollTask
    /\ NoRest
    /\ bpc = "next"
    /\ idx = 1
    /\ main_response = "unbound"
    /\ task_id = None
    /\ preview_url = None
    /\ itemLog = [i \in Files |-> "pending"]
    /\ printed = [text |-> "Output masters will be saved to", item |-> 0]
    /\ exchanged = [i \in Files |-> {}]
    /\ wire = NoRequest
    /\ polling = {}
    /\ issued = [i \in Files |-> [c \in CountedCalls |-> 0]]
    /\ tasks = [t \in TaskIds |-> "none"]
    /\ final_results = "unbound"
    /\ consumed = {}
    /\ NoDownload

NextBatch ==
    \/ BatchNextFile
    \/ BatchGetUploadUrls
    \/ BatchUpload
    \/ BatchSubmit
    \/ BatchPollCall
    \/ BatchPollRequest
    \/ BatchPollAfterLoop
    \/ BatchPollReturn
    \/ BatchRetrieveFinal
    \/ BatchDownload
    \/ BatchFinished

SpecBatch == InitBatch /\ [][NextBatch]_vars

(***************************************************************************)
(* roex_mix_settings.main: one preview mix and its final mix.  The one     *)
(* unit of work of the run is kept at index 1.                              *)
(***************************************************************************)

\* `return` from main, with `line` as the last line printed.
MixReturn(line) ==
    /\ itemLog' = [itemLog EXCEPT ![idx] = line]
    /\ printed' = [text |-> line, item |-> idx]
    /\ bpc' = "mix_done"
    /\ UNCHANGED idx

\* The preview payload file is read.
MixLoadPayload ==
    /\ bpc = "mix_load"
    /\ \E readable \in BOOLEAN :
        IF readable
        THEN /\ bpc' = "mix_submit"
             /\ printed' = [text |-> "Sending POST request for preview mix...", item |-> idx]
             /\ UNCHANGED <<idx, itemLog>>
        ELSE MixReturn("Error reading preview payload JSON file")
    /\ UNCHANGED <<main_response, task_id, preview_url, exchanged, wire, polling>>
    /\ UNCHANGED <<issued, tasks, final_results, consumed>>
    /\ UNCHANGED <<pollVars, dlVars, restVars>>

\* POST /mixpreview and the checks of its answer.
MixSubmit ==
    /\ bpc = "mix_submit"
    /\ \E r \in SubmitResponses :
        LET s == mixpreview(r) IN
        /\ Exchange("submit", r.code)
        /\ main_response' = IF r.code = 0 THEN main_response ELSE "bound"
        /\ task_id' = IF s.act = "poll" THEN TaskIdOf(idx) ELSE task_id
        /\ tasks' = IF s.act = "poll"
                    THEN [tasks EXCEPT ![TaskIdOf(idx)] = "Submitted"]
                    ELSE tasks
        /\ IF s.act = "poll"
           THEN /\ bpc' = "mix_poll"
                /\ printed' = [text |-> s.log, item |-> idx]
                /\ UNCHANGED <<idx, itemLog>>
           ELSE MixReturn(s.log)
    /\ UNCHANGED <<preview_url, polling, final_results, consumed>>
    /\ UNCHANGED <<pollVars, dlVars, restVars>>

\* main calls poll_preview_mix(task_id, headers).
MixPollCall ==
    /\ bpc = "mix_poll"
    /\ PollEntry("poll_preview_mix", MIX_MAX_ATTEMPTS)
    /\ polling' = polling \cup {task_id}
    /\ bpc' = "mix_polling"
    /\ UNCHANGED <<idx, main_response, task_id, preview_url, itemLog, printed, exchanged, wire>>
    /\ UNCHANGED <<issued, tasks, final_results, consumed>>
    /\ UNCHANGED <<dlVars, restVars>>

\* A pass of the poll loop inside main.
MixPollRequest ==
    /\ bpc = "mix_polling"
    /\ PollPass
    /\ ExchangeTo("poll", response'.code, "", "", sent')
    /\ UNCHANGED <<bpc, idx, main_response, task_id, preview_url, itemLog, printed, polling>>
    /\ UNCHANGED <<tasks, final_results, consumed>>
    /\ UNCHANGED <<dlVars, restVars>>

MixPollAfterLoop ==
    /\ bpc = "mix_polling"
    /\ PollEnd
    /\ UNCHANGED <<batchVars, dlVars, restVars>>

\* poll_preview_mix has returned: `if preview_results is None: return` (main
\* prints nothing, so the last line is the one of poll_preview_mix), then the
\* lines about the preview mix.
MixPollReturn ==
    /\ bpc = "mix_polling"
    /\ ppc = "returned"
    /\ polling' = polling \ {task_id}
    /\ tasks' = [tasks EXCEPT ![task_id] = IF ret # None THEN "Completed" ELSE "Failed"]
    /\ IF ret = None
       THEN MixReturn(lastMsg)
       ELSE /\ bpc' = "mix_final_payload"
            /\ printed' = [text |-> "Preview mix URL", item |-> idx]
            /\ UNCHANGED <<idx, itemLog>>
    /\ PollFrameDropped
    /\ UNCHANGED <<main_response, task_id, preview_url, exchanged, wire, issued,
                   final_results, consumed>>
    /\ UNCHANGED <<dlVars, restVars>>

\* The final payload file is read and, when it has the key
\* 'applyAudioEffectsData', given the task identifier of this run in place
\* of the one it held (held: None when the file held none).
MixLoadFinalPayload ==
    /\ bpc = "mix_final_payload"
    /\ \E f \in {"unreadable", "no_key", "ok"} :
        CASE f = "unreadable" ->
               /\ MixReturn("Error reading final payload JSON file")
               /\ UNCHANGED final_payload
          [] f = "no_key" ->
               /\ MixReturn("Error: 'applyAudioEffectsData' key not found in final payload.")
               /\ final_payload' = [loaded |-> TRUE, held |-> None, multitrackTaskId |-> None]
          [] f = "ok" ->
               /\ \E held \in {None, StaleTaskId, task_id} :
                    final_payload' = [loaded |-> TRUE, held |-> held,
                                      multitrackTaskId |-> SetMultitrackTaskId(held, task_id)]
               /\ bpc' = "mix_retrieve"
               /\ printed' = [text |-> "APPLYING AUDIO EFFECTS TO FINAL MIX", item |-> idx]
               /\ UNCHANGED <<idx, itemLog>>
    /\ UNCHANGED <<main_response, task_id, preview_url, exchanged, wire, polling>>
    /\ UNCHANGED <<issued, tasks, final_results, consumed>>
    /\ UNCHANGED <<pollVars, dlVars, cmpVars>>

\* retrieve_final_mix(final_payload, headers) and the lines about its result.
MixRetrieveFinal ==
    /\ bpc = "mix_retrieve"
    /\ \E r \in RetrieveResponses :
        LET got == retrieve_final_mix(r) IN
        /\ ExchangeTo("retrieve", r.code, BodyOf(r), "/retrievefinalmix",
                      final_payload.multitrackTaskId)
        /\ consumed' = consumed \cup {<<"retrieve", task_id>>}
        /\ final_results' = got
        /\ IF got = None THEN MixReturn(retrieve_final_mix_line(r))
           ELSE IF got = "url" THEN MixReturn("Final mix URL")
           ELSE MixReturn("Final mix URL is missing in the response.")
    /\ UNCHANGED <<main_response, task_id, preview_url, polling, tasks>>
    /\ UNCHANGED <<pollVars, dlVars, restVars>>

\* main of roex_mix_settings.py at its first statement.
InitMix ==
    /\ variant = "poll_preview_mix"
    /\ max_attempts = MIX_MAX_ATTEMPTS
    /\ attempt = 0
    /\ ppc = "idle"
    /\ response = TransportFailure
    /\ requests = 0
    /\ sleeps = 0
    /\ ret = None
    /\ lastMsg = ""
    /\ NoPollTask
    /\ NoRest
    /\ bpc = "mix_load"
    /\ idx = 1
    /\ main_response = "unbound"
    /\ task_id = None
    /\ preview_url = None
    /\ itemLog = [i \in Files |-> "pending"]
    /\ printed = [text |-> "", item |-> 0]
    /\ exchanged = [i \in Files |-> {}]
    /\ wire = NoRequest
    /\ polling = {}
    /\ issued = [i \in Files |-> [c \in CountedCalls |-> 0]]
    /\ tasks = [t \in TaskIds |-> "none"]
    /\ final_results = "unbound"
    /\ consumed = {}
    /\ NoDownload

NextMix ==
    \/ MixLoadPayload
    \/ MixSubmit
    \/ MixPollCall
    \/ MixPollRequest
    \/ MixPollAfterLoop
    \/ MixPollReturn
    \/ MixLoadFinalPayload
    \/ MixRetrieveFinal

SpecMix == InitMix /\ [][NextMix]_vars

\* The two scripts with a final retrieval.
InitFinal == InitBatch \/ InitMix

NextFinal == NextBatch \/ NextMix

SpecFinal == InitFinal /\ [][NextFinal]_vars

(***************************************************************************)
(* roex_mix_enhance_tutorial.main: the preview job (index 1), then the     *)
(* full job (index 2).                                                      *)
(***************************************************************************)

\* The job main is at: preview or full.
EnhanceJobs == {1, 2}

EnhanceMaxAttempts(job) ==
    IF job = 1 THEN ENHANCE_PREVIEW_MAX_ATTEMPTS ELSE ENHANCE_FULL_MAX_ATTEMPTS

\* `return` from main, with `line` as the last line printed.
EnhanceReturn(line) ==
    /\ itemLog' = [itemLog EXCEPT ![idx] = line]
    /\ printed' = [text |-> line, item |-> idx]
    /\ bpc' = "enhance_done"
    /\ UNCHANGED idx

\* start_mix_enhance_preview / start_mix_enhance and the check of the task
\* identifier.
EnhanceStart ==
    /\ bpc = "enhance_start"
    /\ \E r \in EnhanceSubmitResponses :
        LET s == start_mix_enhance(r) IN
        /\ Exchange("submit", r.code)
        /\ main_response' = main_response
        /\ task_id' = IF s.tid THEN TaskIdOf(idx) ELSE None
        /\ tasks' = IF s.tid THEN [tasks EXCEPT ![TaskIdOf(idx)] = "Submitted"] ELSE tasks
        /\ IF s.raised THEN Traceback
           ELSE IF ~s.tid
           THEN EnhanceReturn(IF idx = 1 THEN "Failed to create PREVIEW task. Exiting."
                                         ELSE "Failed to create FULL enhance task. Exiting.")
           ELSE /\ bpc' = "enhance_poll"
                /\ printed' = [text |-> s.log, item |-> idx]
                /\ UNCHANGED <<idx, itemLog>>
    /\ UNCHANGED <<preview_url, polling, final_results, consumed>>
    /\ UNCHANGED <<pollVars, dlVars, restVars>>

\* main calls poll_enhanced_track(task_id, max_attempts=70 or 50, poll_interval=5).
EnhancePollCall ==
    /\ bpc = "enhance_poll"
    /\ PollEntry("poll_enhanced_track", EnhanceMaxAttempts(idx))
    /\ polling' = polling \cup {task_id}
    /\ bpc' = "enhance_polling"
    /\ UNCHANGED <<idx, main_response, task_id, preview_url, itemLog, printed, exchanged, wire>>
    /\ UNCHANGED <<issued, tasks, final_results, consumed>>
    /\ UNCHANGED <<dlVars, restVars>>

\* A pass of the poll loop inside main.
EnhancePollRequest ==
    /\ bpc = "enhance_polling"
    /\ PollPass
    /\ ExchangeTo("poll", response'.code, "", "", sent')
    /\ UNCHANGED <<bpc, idx, main_response, task_id, preview_url, itemLog, printed, polling>>
    /\ UNCHANGED <<tasks, final_results, consumed>>
    /\ UNCHANGED <<dlVars, restVars>>

EnhancePollAfterLoop ==
    /\ bpc = "enhance_polling"
    /\ PollEnd
    /\ UNCHANGED <<batchVars, dlVars, restVars>>

\* main going on to the downloads without looking at the value returned.
EnhancePollReturnUnchecked ==
    /\ bpc = "enhance_polling"
    /\ ppc = "returned"
    /\ polling' = polling \ {task_id}
    /\ tasks' = [tasks EXCEPT ![task_id] = IF Truthy(ret) THEN "Completed" ELSE "Failed"]
    /\ bpc' = "enhance_download"
    /\ printed' = [text |-> "--- RESULTS ---", item |-> idx]
    /\ UNCHANGED <<idx, itemLog>>
    /\ PollFrameDropped
    /\ UNCHANGED <<main_response, task_id, preview_url, exchanged, wire, issued,
                   final_results, consumed>>
    /\ UNCHANGED <<dlVars, restVars>>

\* poll_enhanced_track has returned: `if not preview_results: ... return`.
EnhancePollReturn ==
    /\ bpc = "enhance_polling"
    /\ ppc = "returned"
    /\ polling' = polling \ {task_id}
    /\ tasks' = [tasks EXCEPT ![task_id] = IF Truthy(ret) THEN "Completed" ELSE "Failed"]
    /\ IF ~Truthy(ret)
       THEN EnhanceReturn(IF idx = 1 THEN "No preview results returned. Exiting."
                                     ELSE "No final results returned. Exiting.")
       ELSE /\ bpc' = "enhance_download"
            /\ printed' = [text |-> "--- RESULTS ---", item |-> idx]
            /\ UNCHANGED <<idx, itemLog>>
    /\ PollFrameDropped
    /\ UNCHANGED <<main_response, task_id, preview_url, exchanged, wire, issued,
                   final_results, consumed>>
    /\ UNCHANGED <<dlVars, restVars>>

\* The downloads of a result: the track when its URL is there, then every
\* stem; download_file never raises, so main goes on whatever happens in it.
\* After the preview job main starts the full job, after the full job it
\* prints its last line.  n: the download_file calls made; d: how the last
\* of them ended.
EnhanceDownloadResults ==
    /\ bpc = "enhance_download"
    /\ \E n \in 0..(1 + MaxStems), d \in DownloadEvents :
        /\ IF n = 0
           THEN UNCHANGED <<exchanged, wire, issued, consumed>>
           ELSE /\ exchanged' = [exchanged EXCEPT ![idx] = @ \cup {"download"}]
                /\ wire' = [call |-> "download", item |-> idx, body |-> "",
                             url |-> "", task |-> None,
                             code |-> CASE d \in {"written", "io_error"} -> 200
                                        [] d = "http_error" -> 500
                                        [] d = "no_response" -> 0]
                /\ issued' = [issued EXCEPT ![idx]["download"] = @ + n]
                /\ consumed' = consumed \cup {<<"download", task_id>>}
        /\ itemLog' = [itemLog EXCEPT ![idx] = IF n = 0 THEN "--- RESULTS ---"
                                                 ELSE download_file_enhance(d)]
    /\ IF idx = 1
       THEN /\ idx' = 2
            /\ bpc' = "enhance_start"
            /\ printed' = [text |-> "Requesting FULL mix enhancement", item |-> 2]
       ELSE /\ bpc' = "enhance_done"
            /\ printed' = [text |-> "All Done!", item |-> 0]
            /\ UNCHANGED idx
    /\ UNCHANGED <<main_response, task_id, preview_url, polling, tasks, final_results>>
    /\ UNCHANGED <<pollVars, dlVars, restVars>>

\* main of roex_mix_enhance_tutorial.py at its first statement.
InitEnhance ==
    /\ variant = "poll_enhanced_track"
    /\ max_attempts = ENHANCE_PREVIEW_MAX_ATTEMPTS
    /\ attempt = 0
    /\ ppc = "idle"
    /\ response = TransportFailure
    /\ requests = 0
    /\ sleeps = 0
    /\ ret = None
    /\ lastMsg = ""
    /\ NoPollTask
    /\ NoRest
    /\ bpc = "enhance_start"
    /\ idx = 1
    /\ main_response = "unbound"
    /\ task_id = None
    /\ preview_url = None
    /\ itemLog = [i \in Files |-> "pending"]
    /\ printed = [text |-> "Requesting PREVIEW enhancement", item |-> 1]
    /\ exchanged = [i \in Files |-> {}]
    /\ wire = NoRequest
    /\ polling = {}
    /\ issued = [i \in Files |-> [c \in CountedCalls |-> 0]]
    /\ tasks = [t \in TaskIds |-> "none"]
    /\ final_results = "unbound"
    /\ consumed = {}
    /\ NoDownload

NextEnhance ==
    \/ EnhanceStart
    \/ EnhancePollCall
    \/ EnhancePollRequest
    \/ EnhancePollAfterLoop
    \/ EnhancePollReturn
    \/ EnhanceDownloadResults

SpecEnhance == InitEnhance /\ [][NextEnhance]_vars

\* Any of the three scripts with a submission is run.
InitScripts == InitBatch \/ InitMix \/ InitEnhance

NextScripts == NextBatch \/ NextMix \/ NextEnhance

SpecScripts == InitScripts /\ [][NextScripts]_vars

(***************************************************************************)
(* download_file(url, local_filename), step by step.                       *)
(***************************************************************************)

\* download_file ends: it prints its line, and the call evaluates to None.
DownloadEnds(d) ==
    /\ dl_event' = d
    /\ dl_line' = DownloadLine(dl_variant, d)
    /\ dl_ret' = download_file_returns(d)
    /\ dpc' = "done"

\* requests.get(url, stream=True) and r.raise_for_status().
DownloadGet ==
    /\ dpc = "get"
    /\ \E code \in DownloadCodes :
        /\ dl_code' = code
        /\ IF code = 0 THEN DownloadEnds("no_response")
           ELSE IF RaisesForStatus(code) THEN DownloadEnds("http_error")
           ELSE /\ dpc' = "open"
                /\ UNCHANGED <<dl_event, dl_line, dl_ret>>
    /\ UNCHANGED <<dl_variant, served, old, dest, pos>>
    /\ UNCHANGED <<pollVars, batchVars, restVars>>

\* open(local_filename, 'wb'): it raises and leaves the destination as it
\* was, or it truncates the destination.
DownloadOpen ==
    /\ dpc = "open"
    /\ \E opened \in BOOLEAN :
        IF opened
        THEN /\ dest' = open_wb(dest)
             /\ dpc' = "stream"
             /\ UNCHANGED <<dl_event, dl_line, dl_ret>>
        ELSE /\ DownloadEnds("io_error")
             /\ UNCHANGED dest
    /\ UNCHANGED <<dl_variant, dl_code, served, old, pos>>
    /\ UNCHANGED <<pollVars, batchVars, restVars>>

\* One pass of `for chunk in r.iter_content(chunk_size): f.write(chunk)`: the
\* next chunk, of at most chunk_size bytes, is received and appended; or the
\* connection breaks; or the write raises after some part of the chunk.
DownloadChunk ==
    /\ dpc = "stream"
    /\ pos < Len(served)
    /\ \E n \in 1..Min(ChunkSize, Len(served) - pos), e \in {"ok", "broken", "write_error"} :
        LET chunk == SubSeq(served, pos + 1, pos + n) IN
        CASE e = "ok" ->
               /\ dest' = dest \o chunk
               /\ pos' = pos + n
               /\ UNCHANGED <<dpc, dl_event, dl_line, dl_ret>>
          [] e = "broken" ->
               /\ DownloadEnds("no_response")
               /\ UNCHANGED <<dest, pos>>
          [] e = "write_error" ->
               /\ \E k \in 0..(n - 1) : dest' = dest \o SubSeq(chunk, 1, k)
               /\ pos' = pos + n
               /\ DownloadEnds("io_error")
    /\ UNCHANGED <<dl_variant, dl_code, served, old>>
    /\ UNCHANGED <<pollVars, batchVars, restVars>>

\* The body is exhausted: the file and the response are closed and the
\* success line is printed.
DownloadClose ==
    /\ dpc = "stream"
    /\ pos = Len(served)
    /\ DownloadEnds("written")
    /\ UNCHANGED <<dl_variant, dl_code, served, old, dest, pos>>
    /\ UNCHANGED <<pollVars, batchVars, restVars>>

\* A call of download_file on its own: any script's download_file, any body,
\* any earlier content of the destination.
InitDownload ==
    /\ dl_variant \in DownloadVariants
    /\ dpc = "get"
    /\ dl_code = 0
    /\ served \in ByteSeqs(MaxBytes)
    /\ old \in OldContents
    /\ dest = old
    /\ pos = 0
    /\ dl_event = ""
    /\ dl_ret = "running"
    /\ dl_line = ""
    /\ variant = "poll_preview_master"
    /\ max_attempts = DEFAULT_MAX_ATTEMPTS
    /\ attempt = 0
    /\ ppc = "idle"
    /\ response = TransportFailure
    /\ requests = 0
    /\ sleeps = 0
    /\ ret = None
    /\ lastMsg = ""
    /\ NoPollTask
    /\ NoRest
    /\ NoBatch

NextDownload == DownloadGet \/ DownloadOpen \/ DownloadChunk \/ DownloadClose

SpecDownload == InitDownload /\ [][NextDownload]_vars

(***************************************************************************)
(* A caller that calls the poll function again, with the same task          *)
(* identifier, after it returned.                                           *)
(***************************************************************************)

MaxInvocations == 2

PollCalledAgain ==
    /\ ppc = "returned"
    /\ invocations < MaxInvocations
    /\ PollCall(variant, max_attempts, poll_task_id)
    /\ invocations' = invocations + 1
    /\ UNCHANGED <<batchVars, dlVars, restVars>>

NextRepoll == PollRequest \/ PollAfterLoop \/ PollCalledAgain

SpecRepoll == InitPoll /\ [][NextRepoll]_vars

(***************************************************************************)
(* smart_compare_value called on its own.                                   *)
(***************************************************************************)

\* No poll function is running.
NoPoll ==
    /\ variant = "poll_preview_master"
    /\ max_attempts = DEFAULT_MAX_ATTEMPTS
    /\ attempt = 0
    /\ ppc = "idle"
    /\ response = TransportFailure
    /\ requests = 0
    /\ sleeps = 0
    /\ ret = None
    /\ lastMsg = ""
    /\ NoPollTask

InitSmartCompare ==
    /\ NoPoll
    /\ NoBatch
    /\ NoDownload
    /\ final_payload = Unloaded
    /\ readable_urls = {}
    /\ analysis_results = [l \in CmpLabels |-> NoDiagnosis]
    /\ key \in Keys
    /\ val_a \in Values
    /\ val_b \in Values
    /\ compared = NotCompared

SmartCompare ==
    /\ bpc = "none"
    /\ ~compared.called
    /\ compared' = smart_compare_value(key, val_a, val_b)
    /\ UNCHANGED <<key, val_a, val_b, readable_urls, analysis_results, mixVars>>
    /\ UNCHANGED <<pollVars, batchVars, dlVars>>

NextSmartCompare == SmartCompare

SpecSmartCompare == InitSmartCompare /\ [][NextSmartCompare]_vars

(***************************************************************************)
(* roex_mix_comparison.main: the upload loop over mix A (index 1) and mix  *)
(* B (index 2), the analysis loop over the readable URLs, the comparison.  *)
(* get_upload_urls and upload_file_to_signed_url have the same text as in  *)
(* batch_album_mastering.py.                                                *)
(***************************************************************************)

\* `return` from main, with `line` as the last line printed.
CmpReturn(line) ==
    /\ itemLog' = [itemLog EXCEPT ![idx] = line]
    /\ printed' = [text |-> line, item |-> idx]
    /\ bpc' = "cmp_done"
    /\ UNCHANGED idx

\* The analysis loop going on to the next mix after a failed analysis.
CmpAnalysisFailedContinue(line) ==
    /\ itemLog' = [itemLog EXCEPT ![idx] = line]
    /\ printed' = [text |-> line, item |-> idx]
    /\ IF idx = 2
       THEN bpc' = "cmp_compare" /\ UNCHANGED idx
       ELSE idx' = 2 /\ UNCHANGED bpc

\* The else branch of `if diagnosis:`: the line and `return`.
CmpAnalysisFailed(line) == CmpReturn(line)

\* Top of the upload loop: the file must exist and have a supported type.
CmpNextFile ==
    /\ bpc = "cmp_file"
    /\ \E f \in {"missing", "unsupported", "ok"} :
        CASE f = "missing" -> CmpReturn("Error: Input file not found")
          [] f = "unsupported" -> CmpReturn("Error: Unsupported file type. Skipping analysis.")
          [] f = "ok" ->
               /\ bpc' = "cmp_upload_urls"
               /\ printed' = [text |-> "--- Processing Mix ---", item |-> idx]
               /\ UNCHANGED <<idx, itemLog>>
    /\ UNCHANGED <<main_response, task_id, preview_url, exchanged, wire, polling>>
    /\ UNCHANGED <<issued, tasks, final_results, consumed>>
    /\ UNCHANGED <<pollVars, dlVars, restVars>>

\* get_upload_urls and the check of the pair it returns.
CmpGetUploadUrls ==
    /\ bpc = "cmp_upload_urls"
    /\ \E r \in UploadUrlResponses :
        LET got == get_upload_urls(r) IN
        /\ Exchange("upload_urls", r.code)
        /\ IF got.raised THEN Traceback
           ELSE IF ~got.urls THEN CmpReturn("Failed to get upload URLs. Skipping analysis.")
           ELSE /\ bpc' = "cmp_put"
                /\ UNCHANGED <<idx, itemLog, printed>>
    /\ UNCHANGED <<main_response, task_id, preview_url, polling, tasks, final_results, consumed>>
    /\ UNCHANGED <<pollVars, dlVars, restVars>>

\* upload_file_to_signed_url and the check of its result; after mix B the
\* analysis loop starts with mix A.
CmpUpload ==
    /\ bpc = "cmp_put"
    /\ \E u \in UploadEvents :
        LET up == upload_file_to_signed_url(u) IN
        /\ IF up.sent
           THEN Exchange("put", CASE u = "put_ok" -> 200
                                  [] u = "put_http_error" -> 500
                                  [] u = "put_no_response" -> 0)
           ELSE UNCHANGED <<exchanged, wire, issued>>
        /\ IF up.raised THEN Traceback /\ UNCHANGED readable_urls
           ELSE IF ~up.ok
           THEN CmpReturn("File upload failed. Skipping analysis.") /\ UNCHANGED readable_urls
           ELSE /\ readable_urls' = readable_urls \cup {idx}
                /\ UNCHANGED itemLog
                /\ IF idx = 2
                   THEN /\ idx' = 1
                        /\ bpc' = "cmp_analyze"
                        /\ printed' = [text |-> "--- Starting Mix Analysis ---", item |-> 0]
                   ELSE /\ idx' = 2
                        /\ bpc' = "cmp_file"
                        /\ printed' = [text |-> "Using readable URL for Mix", item |-> idx]
    /\ UNCHANGED <<main_response, task_id, preview_url, polling, tasks, final_results, consumed>>
    /\ UNCHANGED <<analysis_results, key, val_a, val_b, compared, mixVars>>
    /\ UNCHANGED <<pollVars, dlVars>>

\* analyze_mix(readable_url, ...) and `if diagnosis:`.
CmpAnalyze ==
    /\ bpc = "cmp_analyze"
    /\ idx \in readable_urls
    /\ \E r \in AnalysisResponses :
        LET got == analyze_mix(r) IN
        /\ ExchangeBody("analyze", r.code, IF r.code = 0 THEN "" ELSE
                                           IF r.json THEN r.res ELSE "not JSON")
        /\ IF got.raised THEN Traceback /\ UNCHANGED analysis_results
           ELSE IF got.diagnosis.present
           THEN /\ analysis_results' = [analysis_results EXCEPT ![idx] = got.diagnosis]
                /\ printed' = [text |-> "Analysis complete for Mix", item |-> idx]
                /\ UNCHANGED itemLog
                /\ IF idx = 2
                   THEN bpc' = "cmp_compare" /\ UNCHANGED idx
                   ELSE idx' = 2 /\ UNCHANGED bpc
           ELSE /\ CmpAnalysisFailed("Analysis failed for Mix. Cannot perform comparison.")
                /\ UNCHANGED analysis_results
    /\ UNCHANGED <<main_response, task_id, preview_url, polling, tasks, final_results, consumed>>
    /\ UNCHANGED <<readable_urls, key, val_a, val_b, compared, mixVars>>
    /\ UNCHANGED <<pollVars, dlVars>>

\* `if len(analysis_results) == 2:` and its two branches; of the metrics
\* compared, the bit depth is followed.
CmpCompare ==
    /\ bpc = "cmp_compare"
    /\ IF Cardinality({l \in CmpLabels : analysis_results[l].present}) = 2
       THEN /\ key' = "bit_depth"
            /\ val_a' = analysis_results[1].bit_depth
            /\ val_b' = analysis_results[2].bit_depth
            /\ compared' = smart_compare_value(key', val_a', val_b')
            /\ printed' = [text |-> "End of Comparison", item |-> 0]
       ELSE /\ printed' = [text |-> "Comparison could not be performed because one or both analyses failed.",
                           item |-> 0]
            /\ UNCHANGED <<key, val_a, val_b, compared>>
    /\ bpc' = "cmp_done"
    /\ UNCHANGED <<idx, main_response, task_id, preview_url, itemLog, exchanged, wire, polling>>
    /\ UNCHANGED <<issued, tasks, final_results, consumed>>
    /\ UNCHANGED <<readable_urls, analysis_results, mixVars>>
    /\ UNCHANGED <<pollVars, dlVars>>

\* main of roex_mix_comparison.py after its arguments are parsed.
InitCompare ==
    /\ NoPoll
    /\ bpc = "cmp_file"
    /\ idx = 1
    /\ main_response = "unbound"
    /\ task_id = None
    /\ preview_url = None
    /\ itemLog = [i \in Files |-> "pending"]
    /\ printed = [text |-> "", item |-> 0]
    /\ exchanged = [i \in Files |-> {}]
    /\ wire = NoRequest
    /\ polling = {}
    /\ issued = [i \in Files |-> [c \in CountedCalls |-> 0]]
    /\ tasks = [t \in TaskIds |-> "none"]
    /\ final_results = "unbound"
    /\ consumed = {}
    /\ NoDownload
    /\ NoRest

NextCompare ==
    \/ CmpNextFile
    \/ CmpGetUploadUrls
    \/ CmpUpload
    \/ CmpAnalyze
    \/ CmpCompare

SpecCompare == InitCompare /\ [][NextCompare]_vars

(***************************************************************************)
(* Properties of the poll loops, checked under SpecPoll.                   *)
(***************************************************************************)

\* The status codes a variant's loop names as "still processing".
ProcessingCodes(v) == IF v = "poll_enhanced_track" THEN {202, 404, 503} ELSE {202}

\* A 200 response whose body parses, has no error flag and lacks (or has an
\* empty) result key.
Is200WithoutResult(r) == r.code = 200 /\ r.json /\ ~r.error /\ ~Truthy(r.res)

\* The responses the specification calls Processing: 202, 200 without the
\* result field, and 404/503 in the variant that accepts them.
IsProcessing(v, r) == r.code \in ProcessingCodes(v) \/ Is200WithoutResult(r)

\* The loop took its "still processing" path for r: it fell through to the sleep.
ClassifiedProcessing(v, r) == LoopBody(v, r).act = "sleep"

\* An explicit failure indicator: a status code that is neither 200 nor one of
\* the variant's processing codes, or a 200 body with the error flag set.
IsFailureIndicator(v, r) ==
    /\ r.code # 0
    /\ \/ r.code \notin ({200} \cup ProcessingCodes(v))
       \/ r.code = 200 /\ r.json /\ r.error

\* A completed response: 200 with a result payload and no error flag (and, for
\* the preview mix, the completed status).
IsCompleted(v, r) ==
    /\ r.code = 200 /\ r.json /\ ~r.error /\ Truthy(r.res)
    /\ (v = "poll_preview_mix" => r.status = "MIX_TASK_PREVIEW_COMPLETED")

\* The outcome of a run that used up its attempts: nothing returned, and the
\* after-loop line as the last line printed.
TimeoutOutcome(v) == <<None, AfterLoopMessage(v)>>

\* C1: one invocation of a poll loop issues at most max_attempts status
\* requests, whatever the responses are, and is never stuck before it returns.
C1_AtMostMaxAttemptsRequests ==
    /\ requests <= max_attempts
    /\ attempt <= max_attempts
    /\ (ppc # "returned" => ENABLED NextPoll)

C1_Witness == ppc = "returned" /\ max_attempts >= 2 /\ requests = max_attempts

\* C2: when every poll of an invocation was classified Processing by the loop,
\* the invocation ends after exactly max_attempts requests with the timeout
\* outcome: it returns no result and its last line is the after-loop line, not
\* a failure line.
C2_AllProcessingTimesOut ==
    (ppc = "returned" /\ (requests = 0 \/ ClassifiedProcessing(variant, response)))
        => /\ requests = max_attempts
           /\ sleeps = max_attempts
           /\ <<ret, lastMsg>> = TimeoutOutcome(variant)

C2_Witness ==
    /\ ppc = "returned" /\ max_attempts >= 2 /\ requests = max_attempts
    /\ ClassifiedProcessing(variant, response) /\ ret = None

\* C3 (as claimed): a response with an explicit failure indicator ends the
\* polling at that response with a failure: the loop is left and nothing is
\* returned as a result.
C3_FailureIndicatorStopsWithFailure ==
    (requests > 0 /\ IsFailureIndicator(variant, response))
        => (ppc # "loop" /\ ret = None)

\* C4 (as claimed): every response that is Processing (202, 200 without the
\* result field, 404/503 where accepted) is followed by exactly one sleep and
\* uses up exactly one attempt.
C4_ProcessingSleepsOnce ==
    [][(requests' = requests + 1 /\ IsProcessing(variant, response'))
         => (sleeps' = sleeps + 1 /\ attempt' = attempt + 1)]_vars

\* C5: when the response to request k+1 is Completed (the k responses before
\* it were classified Processing, or the loop would have ended), the loop
\* returns exactly that response's payload, after k+1 requests and k sleeps.
C5_CompletedReturnsPayload ==
    (ppc = "returned" /\ requests > 0 /\ IsCompleted(variant, response))
        => /\ ret = response.res
           /\ requests = sleeps + 1
           /\ attempt = sleeps

C5_Witness ==
    /\ ppc = "returned" /\ variant = "poll_preview_master"
    /\ IsCompleted(variant, response) /\ ret = response.res
    /\ requests = 2 /\ sleeps = 1

\* C6 (as claimed): in every poll loop a 200 response without the result key
\* is treated as still processing: the loop sleeps and stays in the loop.
C6_200WithoutResultKeepsPolling ==
    [][(requests' = requests + 1 /\ Is200WithoutResult(response'))
         => (sleeps' = sleeps + 1 /\ ppc' = "loop" /\ ret' = None)]_vars

\* C7 (as claimed): a run ended by a reported failure does not end in the
\* returned value and last line of a run that used up its attempts.
C7_FailureDistinctFromTimeout ==
    (ppc = "returned" /\ requests > 0 /\ IsFailureIndicator(variant, response))
        => <<ret, lastMsg>> # TimeoutOutcome(variant)

(***************************************************************************)
(* Properties of the batch mastering workflow, checked under SpecBatch.    *)
(***************************************************************************)

\* The line main prints for a file whose preview request was answered with an
\* error status (the submission was rejected).
SubmissionRejected == ErrorRequesting("HTTPError")

\* The closing line of main, which names no file.
ClosingLine == [text |-> "Batch mastering process finished.", item |-> 0]

\* File k's workflow has ended: main has left it for the next file.
Ended(k) == itemLog[k] # "pending"

\* C8 (as claimed): no failure on a file, of any kind and at any step, aborts
\* the batch: main never ends in an uncaught exception.
C8_NoFailureAbortsBatch == bpc # "crashed"

C10_OneFileAndOneTaskAtATime ==
    /\ \A i \in Files : exchanged[i] # {} => (i <= idx /\ \A j \in 1..(i - 1) : Ended(j))
    /\ \A i \in Files : Ended(i) => i < idx
    /\ Cardinality(polling) <= 1
    /\ (ppc \in {"loop", "after_loop", "returned"} => polling = {TaskIdOf(idx)})

C10_Witness ==
    /\ idx = 2 /\ bpc = "polling" /\ requests >= 2
    /\ "poll" \in exchanged[1]
    /\ polling = {TaskIdOf(2)}

\* C11 (as claimed): a preview request yields a task identifier only when it is
\* answered with status 200: after any other answer, and after none, main has
\* no task identifier and does not go on to poll.
C11_TaskIdOnlyOn200 ==
    [][(bpc = "submit" /\ wire'.call = "submit" /\ wire'.item = idx /\ wire'.code # 200)
         => (task_id' = None /\ bpc' # "poll" /\ tasks' = tasks)]_vars

\* C12: every file's preview request is issued at most once in a run, and
\* exactly once for a file that got as far as the request or has a task: no
\* rejection, poll failure or poll timeout is followed by a second request.
C12_SubmittedOnce ==
    \A k \in Files :
        /\ issued[k]["submit"] <= 1
        /\ ("submit" \in exchanged[k] <=> issued[k]["submit"] = 1)
        /\ (tasks[TaskIdOf(k)] # "none" => issued[k]["submit"] = 1)

C12_Witness ==
    /\ bpc = "finished"
    /\ itemLog[1] = SubmissionRejected
    /\ itemLog[2] = "Could not retrieve preview master"
    /\ tasks[TaskIdOf(2)] = "Failed"
    /\ issued[1]["submit"] = 1 /\ issued[2]["submit"] = 1

\* C17: a task, once taken from a preview request, is Submitted while it is
\* polled and is resolved, for good, to Completed or Failed when the poll
\* returns; the final-master retrieval and the download are issued only for a
\* task whose poll returned a non-empty preview result, the download only after
\* the retrieval, and neither for a file whose polling failed or timed out.
C17_ConsumedOnlyAfterCompleted ==
    /\ [](\A c \in consumed : tasks[c[2]] = "Completed")
    /\ [](\A k \in Files :
            /\ (exchanged[k] \cap {"retrieve", "download"} # {}
                  => /\ tasks[TaskIdOf(k)] = "Completed"
                     /\ <<"retrieve", TaskIdOf(k)>> \in consumed)
            /\ ("download" \in exchanged[k] => <<"download", TaskIdOf(k)>> \in consumed)
            /\ (Ended(k) => tasks[TaskIdOf(k)] \in {"none", "Completed", "Failed"})
            /\ (tasks[TaskIdOf(k)] = "Submitted" => (idx = k /\ bpc \in {"poll", "polling"})))
    /\ [][\A t \in TaskIds : tasks[t] \in {"Completed", "Failed"} => tasks'[t] = tasks[t]]_vars

C17_Witness ==
    /\ bpc = "finished"
    /\ tasks[TaskIdOf(1)] = "Failed" /\ exchanged[1] \cap {"retrieve", "download"} = {}
    /\ tasks[TaskIdOf(2)] = "Completed"
    /\ consumed = {<<"retrieve", TaskIdOf(2)>>, <<"download", TaskIdOf(2)>>}

\* C18 (as claimed): an upload-URL request answered with a status other than
\* 200, or not answered, makes get_upload_urls return (None, None): main
\* prints the failure for the file and goes to the next file.
C18_UploadUrlsFailOnNon200 ==
    [][(bpc = "get_upload_urls" /\ wire'.call = "upload_urls" /\ wire'.code # 200)
         => (bpc' = "next" /\ itemLog'[idx] = "Failed to get upload URLs")]_vars

(***************************************************************************)
(* Classification of the status responses, checked under SpecPoll.         *)
(***************************************************************************)

\* The step is a status request that the loop answers with a sleep and a
\* further pass.
SleptOn == requests' = requests + 1 /\ sleeps' = sleeps + 1 /\ ppc' = "loop"

\* The step is a status request that ends the polling with no result.
FailedOn == requests' = requests + 1 /\ sleeps' = sleeps /\ ppc' # "loop" /\ ret' = None

\* C15: the status codes a loop takes as Processing are 202, 404 and 503 in
\* poll_enhanced_track and 202 alone in poll_preview_master and
\* poll_preview_mix (for poll_preview_mix: of a response whose body it could
\* parse); a status code that is neither 200 nor one of the variant's
\* Processing codes ends the polling with no result, in every variant.
C15_StatusClassificationPerVariant ==
    [][requests' = requests + 1 =>
         LET r == response' IN
         /\ (variant = "poll_enhanced_track" /\ r.code \in {202, 404, 503}) => SleptOn
         /\ (variant = "poll_preview_master" /\ r.code = 202) => SleptOn
         /\ (variant = "poll_preview_mix" /\ r.code = 202 /\ r.json) => SleptOn
         /\ (variant # "poll_enhanced_track" /\ SleptOn) => r.code = 202
         /\ (variant = "poll_enhanced_track" /\ SleptOn) => r.code \in {200, 202, 404, 503}
         /\ (r.code \notin ({0, 200} \cup ProcessingCodes(variant))) => FailedOn]_vars

C15_Witness ==
    /\ variant = "poll_preview_master" /\ response.code = 404
    /\ requests = 2 /\ sleeps = 1 /\ ppc = "returned" /\ ret = None

\* C16 (as claimed): a 200 response whose body has the error flag set is never
\* returned as a completed result, in any poll loop.
C16_ErrorFlagNeverReturned ==
    (requests > 0 /\ response.code = 200 /\ response.json /\ response.error)
        => ~(ppc = "returned" /\ ret \in Payloads)

\* C19 (as claimed): a status request answered with 202 is followed by a sleep
\* and a further pass of the loop, whatever the body of the answer is.
C19_202SleepsWhateverBody ==
    [][(requests' = requests + 1 /\ response'.code = 202) => SleptOn]_vars

(***************************************************************************)
(* Properties of download_file, checked under SpecDownload.                *)
(***************************************************************************)

\* C13 (as claimed): the value download_file gives its caller tells how the
\* download ended: no other ending (success, transport failure, error status,
\* write failure) gives the caller the same value.
C13_DownloadOutcomesDistinct ==
    dpc = "done"
        => \A d \in DownloadEvents \ {dl_event} : download_file_returns(d) # dl_ret

\* C14: while the body is streamed the destination holds exactly the bytes
\* received so far, in order, and nothing of its earlier content; when
\* download_file ends with success (after an answer, 2xx or other, that
\* raise_for_status() let through) the destination holds exactly the bytes
\* served.
C14_DestinationHoldsServedBytes ==
    /\ (dpc = "stream" => dest = SubSeq(served, 1, pos))
    /\ ((dpc = "done" /\ dl_event = "written")
          => (dest = served /\ pos = Len(served) /\ ~RaisesForStatus(dl_code) /\ dl_code # 0))

C14_Witness ==
    /\ dpc = "done" /\ dl_event = "written"
    /\ Len(served) > ChunkSize
    /\ old # <<>> /\ old[1] # served[1]
    /\ dest = served

(***************************************************************************)
(* Final-result retrieval, checked under SpecFinal.                        *)
(***************************************************************************)

\* The step is the request of retrieve_final_master or retrieve_final_mix.
RetrieveStep == bpc \in {"retrieve", "mix_retrieve"} /\ wire'.call = "retrieve"

\* C20: retrieve_final_master and retrieve_final_mix issue one POST and are
\* not called again for the unit of work; the value they give is None after a
\* status other than 200 and after a transport error, and the results field of
\* the body after a 200 whose body has one; in the batch a download is issued
\* only when main's final result holds a non-empty download_url_mastered, and
\* at most once per file.
C20_SingleRetrievalNoRetry ==
    /\ [](\A k \in Files : issued[k]["retrieve"] <= 1 /\ issued[k]["download"] <= 1)
    /\ [][RetrieveStep =>
            /\ issued'[idx]["retrieve"] = 1
            /\ bpc' \notin {"retrieve", "mix_retrieve"}
            /\ (wire'.code # 200 => final_results' = None)
            /\ ((wire'.code = 200 /\ wire'.body \in {"empty", "no_url", "url"})
                  => final_results' = wire'.body)]_vars
    /\ [][\A k \in Files :
            issued'[k]["download"] # issued[k]["download"]
                => (bpc = "download" /\ k = idx /\ final_results = "url")]_vars
    /\ [](bpc = "download" => (final_results = "url" /\ wire.call = "retrieve" /\ wire.code = 200))

C20_Witness ==
    /\ bpc = "finished"
    /\ itemLog[1] = "Final master result received, but URL is missing."
    /\ issued[1]["retrieve"] = 1 /\ issued[1]["download"] = 0
    /\ issued[2]["retrieve"] = 1 /\ issued[2]["download"] = 1
    /\ final_results = "url"

(***************************************************************************)
(* Further properties of the poll loops.                                    *)
(***************************************************************************)

\* The response is one after which the polling is said to end without a
\* result: no response at all, an explicit failure indicator, or a 200 body
\* that reports the preview mix as failed.
EndsPolling(v, r) ==
    \/ r = TransportFailure
    \/ IsFailureIndicator(v, r)
    \/ r.status = "MIX_TASK_PREVIEW_FAILED"

\* C21 (as claimed): poll_preview_mix returns a result only for a 200 response
\* whose previewMixTaskResults.status is 'MIX_TASK_PREVIEW_COMPLETED' and no
\* result for every other response, and it keeps polling until the preview mix
\* is ready or max_attempts requests were issued: it gives up earlier only on a
\* response that ends the polling.
C21_PreviewMixPollsUntilReadyOrExhausted ==
    (variant = "poll_preview_mix" /\ ppc = "returned")
        => /\ (ret # None <=> (requests > 0 /\ IsCompleted(variant, response)))
           /\ (ret # None => ret = response.res)
           /\ \/ (requests > 0 /\ IsCompleted(variant, response))
              \/ requests = max_attempts
              \/ (requests > 0 /\ EndsPolling(variant, response))

\* C26 (as claimed): the loops sleep only between attempts: a sleep is always
\* followed by another status request, and an invocation that timed out after
\* max_attempts requests has slept max_attempts - 1 times.
C26_SleepsOnlyBetweenAttempts ==
    /\ [][(sleeps' = sleeps + 1) => LoopContinues(attempt', max_attempts')]_vars
    /\ []((ppc = "returned" /\ max_attempts > 0 /\ requests = max_attempts
             /\ ClassifiedProcessing(variant, response))
            => sleeps = max_attempts - 1)

\* C30: with max_attempts = 0 a poll loop issues no status request, does not
\* sleep, and returns no result with the outcome of a timeout.
C30_ZeroAttemptsNothingIssued ==
    max_attempts = 0
        => /\ requests = 0
           /\ sleeps = 0
           /\ sent = None
           /\ ppc \in {"loop", "returned"}
           /\ (ppc = "loop" => ENABLED PollAfterLoop)
           /\ (ppc = "returned" => <<ret, lastMsg>> = TimeoutOutcome(variant))

C30_Witness == max_attempts = 0 /\ ppc = "returned" /\ ret = None /\ requests = 0

(***************************************************************************)
(* The task identifier of the status requests, checked under SpecRepoll.    *)
(***************************************************************************)

\* C27: every status request of an invocation carries the task identifier
\* the function was called with; polling changes neither the identifier nor
\* the payload; and an invocation that follows another one with the same
\* identifier starts its attempts anew and may again issue up to max_attempts
\* requests.
C27_SameTaskIdFreshCount ==
    /\ [](requests > 0 => sent = poll_task_id)
    /\ [](retrieve_payload = poll_task_id)
    /\ [][poll_task_id' = poll_task_id /\ retrieve_payload' = retrieve_payload]_vars
    /\ [][(invocations' = invocations + 1)
            => (attempt' = 0 /\ requests' = 0 /\ sleeps' = 0 /\ ppc' = "loop"
                  /\ max_attempts' = max_attempts)]_vars
    /\ [](requests <= max_attempts)

C27_Witness ==
    /\ invocations = 2
    /\ max_attempts >= 2
    /\ requests = max_attempts
    /\ sent = poll_task_id
    /\ ppc = "returned"

(***************************************************************************)
(* Properties of the batch, checked under SpecBatch.                        *)
(***************************************************************************)

\* C28: in the batch the preview submission of every file goes to
\* /masteringpreview, also for a file that follows one whose iteration
\* overwrote preview_url with the previewMasterTrackURL of its result or None.
C28_SubmissionGoesToMasteringPreview ==
    wire.call = "submit"
        => (wire.url = "/masteringpreview" /\ preview_url = "/masteringpreview")

C28_Witness ==
    /\ wire.call = "submit"
    /\ wire.item = 2
    /\ "retrieve" \in exchanged[1]
    /\ wire.url = "/masteringpreview"

(***************************************************************************)
(* Properties of the mix-enhance example, checked under SpecEnhance.        *)
(***************************************************************************)

\* C22: the FULL job is submitted only after the PREVIEW job was submitted
\* and its polling returned a non-empty result; the final track is downloaded
\* only after the polling of the FULL job returned a non-empty result; and
\* when the preview submission or its polling fails no FULL job is submitted.
C22_FullOnlyAfterPreviewCompleted ==
    /\ ("submit" \in exchanged[2]
          => ("submit" \in exchanged[1] /\ tasks[TaskIdOf(1)] = "Completed"))
    /\ (idx = 2 => tasks[TaskIdOf(1)] = "Completed")
    /\ ("download" \in exchanged[1] => tasks[TaskIdOf(1)] = "Completed")
    /\ ("download" \in exchanged[2] => tasks[TaskIdOf(2)] = "Completed")
    /\ ((\/ tasks[TaskIdOf(1)] = "Failed"
         \/ itemLog[1] \in {"Failed to create PREVIEW task. Exiting.",
                            "No preview results returned. Exiting."}
         \/ (bpc = "crashed" /\ idx = 1))
          => (exchanged[2] = {} /\ tasks[TaskIdOf(2)] = "none"))

C22_Witness ==
    /\ bpc = "enhance_done"
    /\ printed.text = "All Done!"
    /\ "download" \in exchanged[1]
    /\ "download" \in exchanged[2]
    /\ tasks[TaskIdOf(2)] = "Completed"

(***************************************************************************)
(* Properties of the mix workflow, checked under SpecMix.                   *)
(***************************************************************************)

\* C25: the final-mix request is issued only after the preview polling
\* returned a completed result and only when the final payload loaded has the
\* key 'applyAudioEffectsData'; it carries as multitrackTaskId the task
\* identifier this run got from /mixpreview, whatever the file held.
C25_FinalMixCarriesThisRunsTaskId ==
    /\ \A i \in Files :
         "retrieve" \in exchanged[i]
            => /\ i = 1
               /\ "submit" \in exchanged[1]
               /\ tasks[TaskIdOf(1)] = "Completed"
               /\ task_id = TaskIdOf(1)
               /\ final_payload.loaded
               /\ final_payload.multitrackTaskId = task_id
    /\ (wire.call = "retrieve"
          => (wire.task = TaskIdOf(1) /\ wire.url = "/retrievefinalmix"))
    /\ ((final_payload.loaded /\ final_payload.multitrackTaskId = None)
          => ("retrieve" \notin exchanged[1] /\ bpc = "mix_done"))

C25_Witness ==
    /\ wire.call = "retrieve"
    /\ final_payload.held = StaleTaskId
    /\ wire.task = TaskIdOf(1)
    /\ tasks[TaskIdOf(1)] = "Completed"

(***************************************************************************)
(* Further properties of download_file, checked under SpecDownload.         *)
(***************************************************************************)

\* C29 (as claimed): download_file leaves the destination as it was when the
\* GET fails before a response or is answered with a status that is not 2xx:
\* the file is neither created nor truncated.
C29_DestinationUntouchedOnFailedGet ==
    (dpc # "get" /\ dl_code \notin {200, 206}) => dest = old

(***************************************************************************)
(* Properties of roex_mix_comparison.py, checked under SpecCompare and      *)
(* SpecSmartCompare.                                                        *)
(***************************************************************************)

\* C23: the comparison is made only after mix A and mix B were both
\* uploaded and analysed with a non-empty diagnosis; any failure ends the run
\* before the comparison; and the line of the else branch, 'Comparison could
\* not be performed because one or both analyses failed.', is never printed.
C23_ComparisonOnlyAfterBothAnalyses ==
    /\ ((compared.called \/ bpc = "cmp_compare" \/ printed.text = "End of Comparison")
          => /\ readable_urls = CmpLabels
             /\ \A l \in CmpLabels :
                  /\ analysis_results[l].present
                  /\ {"upload_urls", "put", "analyze"} \subseteq exchanged[l]
                  /\ itemLog[l] = "pending")
    /\ (printed.text = "End of Comparison" <=> compared.called)
    /\ printed.text # "Comparison could not be performed because one or both analyses failed."
    /\ (((\E l \in CmpLabels : Ended(l)) \/ bpc = "crashed")
          => (~compared.called /\ bpc \in {"cmp_done", "crashed"}))

C23_Witness ==
    /\ bpc = "cmp_done"
    /\ compared.called
    /\ val_a = Num(160)
    /\ val_b = Num(240)
    /\ analysis_results[1].present /\ analysis_results[2].present

\* C24 (as claimed): smart_compare_value marks two numeric values red when
\* their difference exceeds the threshold of the key; for 'bit_depth', whose
\* threshold is 0, every difference does: differing bit depths are marked red
\* and not reported as within the acceptable range.
C24_DifferenceOverThresholdIsRed ==
    (compared.called /\ val_a.kind = "num" /\ val_b.kind = "num"
       /\ key \in {"integrated_loudness_lufs", "peak_loudness_dbfs", "bit_depth"}
       /\ Abs(val_a.n - val_b.n) > numeric_thresholds(key))
        => /\ compared.formatted_a = Formatted("RED", val_a)
           /\ compared.formatted_b = Formatted("RED", val_b)
           /\ compared.interpretation.text = "exceeds threshold"

====
